---- MODULE Spec2Model ----
(***************************************************************************)
(* safe-json-loader: the prototype-pollution sanitizer, the depth          *)
(* calculator, the concurrency limiter and the loading pipeline of         *)
(* src/src/safeJsonLoader.ts, as state machines.                           *)
(*                                                                         *)
(*   SpecSan  sanitizePrototypePollution / calculateDepth applied to JSON  *)
(*            values built up by wrapping (a pure-function harness).       *)
(*   SpecCt   assertJsonContentType applied to content-type headers built   *)
(*            piece by piece (a pure-function harness).                    *)
(*   SpecRec  a LoadedJsonFile built as loadLocalJsonFile builds it, then   *)
(*            written to by the code that receives it.                     *)
(*   Spec     one call of loadSafeJsonResources: every action is one turn  *)
(*            of the event loop (the synchronous code up to the next       *)
(*            await, with the promise reactions it triggers).              *)
(***************************************************************************)
EXTENDS Integers, Sequences, FiniteSets, TLC

(***************************************************************************)
(* JSON values (types.ts JsonValue).  An object node carries its prototype *)
(* ("Object.prototype" for what JSON.parse builds, "null" for what         *)
(* Object.create(null) builds) and a function from its own keys to values. *)
(***************************************************************************)
Null == [t |-> "null"]

Num(n) == [t |-> "num", n |-> n]

Bool(b) == [t |-> "bool", b |-> b]

\* a string is a sequence of pieces, so that prefixes can be tested
Str(s) == [t |-> "str", s |-> s]

Arr(e) == [t |-> "arr", e |-> e]

Obj(proto, f) == [t |-> "obj", proto |-> proto, f |-> f]

EmptyFields == [k \in {} |-> Null]

\* what JSON.parse builds for {...}
Parsed(f) == Obj("Object.prototype", f)

\* a function result: a returned value or a thrown error
Return(v) == [ok |-> TRUE, val |-> v]

Throw(code) == [ok |-> FALSE, code |-> code]

\* the members every object inherits from Object.prototype
ObjectPrototypeMembers ==
  {"constructor", "__proto__", "toString", "hasOwnProperty", "valueOf"}

\* property lookup obj[name]: own keys first, then the prototype chain
Get(obj, name) ==
  IF name \in DOMAIN obj.f THEN [found |-> TRUE, own |-> TRUE]
  ELSE IF obj.proto = "Object.prototype" /\ name \in ObjectPrototypeMembers
       THEN [found |-> TRUE, own |-> FALSE]
       ELSE [found |-> FALSE, own |-> FALSE]

(***************************************************************************)
(* The sanitizer.                                                          *)
(***************************************************************************)
POLLUTION_KEYS_Mutant == {"__proto__"}

POLLUTION_KEYS == {"__proto__", "constructor", "prototype"}

\* the circuit-breaker bound used when no maxDepth option is given
DefaultSanitizeMaxDepth == 1000

ObjectCreateMutant == "Object.prototype"

\* Object.create(null): the prototype of every rebuilt object
ObjectCreate == "null"

\* Object.keys(value) minus the keys the loop skips with `continue`
KeptKeys(value) == {key \in DOMAIN value.f : key \notin POLLUTION_KEYS}

RECURSIVE deepSanitize(_, _, _)

\* the array branch with the elements copied as they are (no recursion)
SanitizeArrayMutant(value, depth, maxDepth) == Return(value)

SanitizeArray(value, depth, maxDepth) ==
  LET r == [i \in 1..Len(value.e) |-> deepSanitize(value.e[i], depth + 1, maxDepth)]
  IN IF \E i \in DOMAIN r : ~r[i].ok
     THEN Throw("JSON_DEPTH_SANITATION_LIMIT")
     ELSE Return(Arr([i \in DOMAIN r |-> r[i].val]))

\* the object branch that, instead of dropping "__proto__", lifts the members
\* of its object value into the result as they are
SanitizeObjectHoistMutant(value, depth, maxDepth) ==
  LET r == [key \in KeptKeys(value) |->
              deepSanitize(value.f[key], depth + 1, maxDepth)]
      lifted == IF "__proto__" \in DOMAIN value.f /\ value.f["__proto__"].t = "obj"
                THEN value.f["__proto__"].f ELSE <<>>
  IN IF \E key \in DOMAIN r : ~r[key].ok
     THEN Throw("JSON_DEPTH_SANITATION_LIMIT")
     ELSE Return(Obj(ObjectCreate,
                     [key \in DOMAIN r \cup DOMAIN lifted |->
                        IF key \in DOMAIN r THEN r[key].val ELSE lifted[key]]))

SanitizeObject(value, depth, maxDepth) ==
  LET r == [key \in KeptKeys(value) |->
              deepSanitize(value.f[key], depth + 1, maxDepth)]
  IN IF \E key \in DOMAIN r : ~r[key].ok
     THEN Throw("JSON_DEPTH_SANITATION_LIMIT")
     ELSE Return(Obj(ObjectCreate, [key \in DOMAIN r |-> r[key].val]))

\* the depth test with >= for >
deepSanitizeOffByOneMutant(value, depth, maxDepth) ==
  IF depth >= maxDepth THEN Throw("JSON_DEPTH_SANITATION_LIMIT")
  ELSE IF value.t = "arr" THEN SanitizeArray(value, depth, maxDepth)
  ELSE IF value.t = "obj" THEN SanitizeObject(value, depth, maxDepth)
  ELSE Return(value)

deepSanitize(value, depth, maxDepth) ==
  IF depth > maxDepth THEN Throw("JSON_DEPTH_SANITATION_LIMIT")
  ELSE IF value.t = "arr" THEN SanitizeArray(value, depth, maxDepth)
  ELSE IF value.t = "obj" THEN SanitizeObject(value, depth, maxDepth)
  ELSE Return(value)

\* options is <<>> (no maxDepth given) or <<maxDepth>>
sanitizePrototypePollution(input, options) ==
  LET maxDepth == IF options = <<>> THEN DefaultSanitizeMaxDepth ELSE options[1]
  IN deepSanitize(input, 0, maxDepth)

Max(S) == CHOOSE m \in S : \A n \in S : n <= m

RECURSIVE calculateDepthFrom(_, _)

calculateDepthFrom(value, currentDepth) ==
  IF value.t = "null" THEN currentDepth
  ELSE IF value.t = "arr" THEN
    Max({currentDepth} \cup
        {calculateDepthFrom(value.e[i], currentDepth + 1) : i \in DOMAIN value.e})
  ELSE IF value.t = "obj" THEN
    Max({currentDepth} \cup
        {calculateDepthFrom(value.f[key], currentDepth + 1) : key \in DOMAIN value.f})
  ELSE currentDepth

calculateDepth(value) == calculateDepthFrom(value, 0)

(***************************************************************************)
(* Paths into a JSON value, used to state what sanitization keeps.  A step *)
(* is an array index [i |-> n] or an object key [k |-> name].              *)
(***************************************************************************)
RECURSIVE Paths(_)

Paths(v) ==
  {<<>>} \cup
  (IF v.t = "arr"
   THEN UNION {{<<[i |-> n]>> \o p : p \in Paths(v.e[n])} : n \in DOMAIN v.e}
   ELSE IF v.t = "obj"
   THEN UNION {{<<[k |-> key]>> \o p : p \in Paths(v.f[key])} : key \in DOMAIN v.f}
   ELSE {})

RECURSIVE At(_, _)

At(v, p) ==
  IF p = <<>> THEN v
  ELSE IF v.t = "arr" THEN At(v.e[Head(p).i], Tail(p))
  ELSE At(v.f[Head(p).k], Tail(p))

IsKeyStep(s) == DOMAIN s = {"k"}

\* a path that goes through no pollution key
CleanPath(p) ==
  \A n \in DOMAIN p : IsKeyStep(p[n]) => p[n].k \notin {"__proto__", "constructor", "prototype"}

\* the node itself without its children
Shape(v) ==
  IF v.t = "arr" THEN <<"arr", Len(v.e)>>
  ELSE IF v.t = "obj" THEN <<"obj">>
  ELSE <<"scalar", v>>

(***************************************************************************)
(* Strings, paths and URLs.  A string is a sequence of pieces; "/" and a   *)
(* file extension (".json") are pieces of their own, as is a URL scheme.   *)
(***************************************************************************)
toLowerCase(piece) ==
  CASE piece = ".JSON" -> ".json"
    [] piece = "Application/JSON" -> "application/json"
    [] piece = "HTTPS://" -> "https://"
    [] piece = "HTTP://" -> "http://"
    [] OTHER -> piece

\* a test that takes every non-empty string for a URL
isHttpUrlMutant(str) == Len(str) > 0

\* /^https?:\/\//i.test(str)
isHttpUrl(str) ==
  Len(str) > 0 /\ toLowerCase(str[1]) \in {"http://", "https://"}

Extensions == {".json", ".JSON", ".txt"}

\* the pieces after the last "/"
basename(str) ==
  LET slashes == {n \in DOMAIN str : str[n] = "/"}
  IN IF slashes = {} THEN str ELSE SubSeq(str, Max(slashes) + 1, Len(str))

\* path.extname: the extension piece that ends the last segment, or ""
extname(str) ==
  LET b == basename(str)
  IN IF Len(b) >= 2 /\ b[Len(b)] \in Extensions THEN b[Len(b)] ELSE ""

\* the extension test without the lower-casing
isJsonFileMutant(file) == extname(file) = ".json"

isJsonFile(file) == toLowerCase(extname(file)) = ".json"

\* new URL(str).pathname: from the first "/" after the host
pathname(str) ==
  LET slashes == {n \in DOMAIN str : str[n] = "/"}
  IN IF slashes = {} THEN <<"/">>
     ELSE SubSeq(str, CHOOSE n \in slashes : \A m \in slashes : n <= m, Len(str))

\* path.resolve: an absolute path as it is, a relative one under the cwd
resolve(str) == IF str[1] = "/d" THEN str ELSE <<"/cwd", "/">> \o str

\* path.join(dirPath, file)
join(dirPath, file) == dirPath \o <<"/">> \o file

\* a URL object (JsonLoadInput = string | PathLike | URL)
UrlObject(href) == [t |-> "url", href |-> href]

\* String(value) of a value that is no string
String(value) ==
  IF value.t = "url" THEN value.href ELSE <<ToString(value.n)>>

\* a string as it is; reading .href of null throws a TypeError; anything
\* else is converted with String()
ensureStringInput(value) ==
  IF value.t = "str" THEN Return(value.s)
  ELSE IF value.t = "null" THEN Throw("TypeError")
  ELSE Return(String(value))

(***************************************************************************)
(* The environment one call can meet: documents, files, responses.         *)
(***************************************************************************)
\* number of entries of a directory listing / of a remote index
MaxEntries == 3

\* what all I/O that is not JSON text parses to
NotJson == [t |-> "notjson"]

DocFlat == Parsed("a" :> Num(1))

\* depth 3 as parsed, depth 2 once __proto__ is stripped
DocPolluted ==
  Parsed(("a" :> Arr(<<Num(1)>>)) @@
         ("__proto__" :> Parsed("x" :> Parsed("y" :> Num(1)))))

DocDeep == Arr(<<Arr(<<Arr(<<Num(1)>>)>>)>>)

\* an object whose files member is no array: not an index
DocFilesNotArray == Parsed("files" :> Num(1))

FileContents == {NotJson, DocFlat, DocPolluted, DocDeep}

FileSizes == {1, 2}

LetterOf(n) == CASE n = 1 -> "a" [] n = 2 -> "b" [] n = 3 -> "c" [] OTHER -> "z"

\* the n-th entry of a directory listing is one of these names
EntryNames(n) == {<<LetterOf(n), e>> : e \in Extensions}

RECURSIVE SeqsOver(_, _)

\* the sequences of length n whose i-th element is in S(i)
SeqsOver(S(_), n) ==
  IF n = 0 THEN {<<>>}
  ELSE {Append(q, x) : q \in SeqsOver(S, n - 1), x \in S(n)}

DirListings == UNION {SeqsOver(EntryNames, n) : n \in 0..MaxEntries}

\* the n-th entry of an index: a URL, a string that is no URL, a non-string
IndexEntries(n) ==
  {Str(<<"https://", "x", "/", "p", "/", LetterOf(n), ".json">>),
   Str(<<LetterOf(n), ".json">>),
   Num(n)}

IndexLists == UNION {SeqsOver(IndexEntries, n) : n \in 0..MaxEntries}

IndexBodies ==
  {Arr(l) : l \in IndexLists} \cup {Parsed("files" :> Arr(l)) : l \in IndexLists}

\* a body that has the shape of an index itself
DocNestedIndex ==
  Parsed("files" :> Arr(<<Str(<<"https://", "x", "/", "p", "/", "n", ".json">>)>>))

MemberBodies ==
  {NotJson, DocFlat, DocPolluted, Arr(<<Str(<<"s">>)>>), DocNestedIndex}

RootBodies ==
  {NotJson, DocFlat, DocPolluted, DocDeep, DocFilesNotArray} \cup IndexBodies

\* content-type header values, lower-cased piece by piece by the code
ContentTypes ==
  {<<>>,
   <<"application/json">>,
   <<"application/json", "; charset=utf-8">>,
   <<"application/ld+", "json">>,
   <<"text/html">>}

\* a response as fetch resolves it: headers only
Responses == [ok : BOOLEAN, ct : ContentTypes]

\* the inputs of a call
LocalInputs ==
  {<<"/d", "/", "cfg", ".json">>, <<"/d", "/", "notes", ".txt">>,
   <<"cfg", ".JSON">>, <<"/d", "/", "conf">>}

RemoteInputs == {<<"https://", "x", "/", "p", "/", "cfg", ".json">>}

\* resolved options (ResolvedSafeJsonLoaderOptions); an option the route
\* never reads is left at one value
LocalOpts ==
  [maxFiles : {1, 3}, maxTotalBytes : {3}, maxFileBytes : {1, 2},
   maxConcurrency : {0, 1, 2}, maxJsonDepth : {1, 2},
   looseJsonContentType : {TRUE}]

RemoteOpts ==
  [maxFiles : {1, 3}, maxTotalBytes : {3}, maxFileBytes : {2},
   maxConcurrency : {0, 1, 2}, maxJsonDepth : {1, 2},
   looseJsonContentType : BOOLEAN]

\* arguments that are not strings: a URL object, a number, null
OtherInputs ==
  {UrlObject(<<"https://", "x", "/", "p", "/", "cfg", ".json">>), Num(42), Null}

Calls ==
  {[input |-> Str(i), opts |-> o] : i \in LocalInputs, o \in LocalOpts}
  \cup {[input |-> Str(i), opts |-> o] : i \in RemoteInputs, o \in RemoteOpts}
  \cup {[input |-> i, opts |-> o] :
          i \in {Str(<<>>)} \cup OtherInputs,
          o \in {p \in RemoteOpts : p.maxConcurrency = 1 /\ p.maxFiles = 1}}

(***************************************************************************)
(* State.                                                                  *)
(***************************************************************************)
VARIABLES
  doc,      \* SpecSan: the JSON value under construction / sanitized
  sanPc,    \* SpecSan: "build" | "done" ("off" under Spec)
  sanOpt,   \* SpecSan: the options given to sanitizePrototypePollution
  sanOut,   \* SpecSan: the result of sanitizePrototypePollution(doc, sanOpt)
  ctHdr,    \* SpecCt: the content-type header under construction / checked
  ctPc,     \* SpecCt: "build" | "done" ("off" under the other specifications)
  ctLoose,  \* SpecCt: opts.looseJsonContentType
  ctOut,    \* SpecCt: what the checks of loadRemoteJson made of the response
  fnArg,    \* function harnesses: the argument / the object as constructed
  fnRes,    \* function harnesses: the result / the object as it is now
  fnPc,     \* function harnesses: "new" | "done" ("off" when not in use)
  fnN,      \* function harnesses: steps taken on the object
  input,    \* the input argument of the call
  opts,     \* the resolved options of the call
  pc,       \* where loadSafeJsonResources stands
  route,    \* "none" | "file" | "dir" | "remote" | "index"
  outcome,  \* the promise loadSafeJsonResources returned
  atSettle, \* the effects that had happened when that promise settled
  root,     \* the load of the input itself (single file / fetched URL)
  items,    \* jsonFiles of the directory / urls of the index
  task,     \* the per-item loads handed to the limiter
  active,   \* createLimiter: active
  queue,    \* createLimiter: queue (item numbers of the deferred executes)
  loopIdx,  \* loadLocalDirectory: the file the stat loop is at
  totalSize,\* loadLocalDirectory: totalSize
  size,     \* file system: the sizes stat has reported (0: not yet)
  content,  \* what reading file / body n yielded (<<>>: not yet)
  fx        \* the effects of the call so far

sanVars == <<doc, sanPc, sanOpt, sanOut>>

loadVars ==
  <<input, opts, pc, route, outcome, atSettle, root, items, task, active,
    queue, loopIdx, totalSize, size, content, fx>>

ctVars == <<ctHdr, ctPc, ctLoose, ctOut>>

fnVars == <<fnArg, fnRes, fnPc, fnN>>

vars == <<sanVars, ctVars, fnVars, loadVars>>

\* inputStr, once ensureStringInput has returned it
inputStr == ensureStringInput(input).val

\* item numbers: 0 is the input itself, 1.. are the members
Slots == 0..MaxEntries

NoEffects ==
  [probed |-> FALSE,  \* the input path was stat'ed
   listed |-> FALSE,  \* the directory was listed
   statted |-> {},  \* members stat'ed by the directory loop
   fstat |-> {},    \* loads whose loadLocalJsonFile stat was issued
   read |-> {},     \* loads whose readFile was issued
   fetch |-> {},    \* loads whose HTTP request was issued
   body |-> {},     \* loads whose response body was read
   loaded |-> [n \in Slots |-> 0],  \* onFileLoaded calls per load
   skipped |-> {},  \* loads onFileSkipped was called for
   pathKind |-> "none",  \* what the stat of the input path reported
   given |-> [n \in Slots |-> <<>>],  \* the records onFileLoaded was called with
   order |-> <<>>,  \* the per-item loads in the order they settled
   started |-> <<>>,  \* the per-item loads in the order execute ran them
   resp |-> [n \in Slots |-> <<>>]]  \* of the response fetch resolved with
                                     \* for load n: res.ok, and whether its
                                     \* content-type holds the text json

SanIdle == doc = Null /\ sanPc = "off" /\ sanOpt = <<>> /\ sanOut = Return(Null)

CtIdle == ctHdr = <<>> /\ ctPc = "off" /\ ctLoose = TRUE /\ ctOut = Return(Null)

FnIdle == fnArg = Null /\ fnRes = Null /\ fnPc = "off" /\ fnN = 0

Pending == [st |-> "pending"]

Success(files) == [st |-> "ok", files |-> files]

Failure(code) == [st |-> "err", code |-> code]

LoadIdle ==
  /\ input = Str(<<>>) /\ opts = CHOOSE o \in RemoteOpts : TRUE
  /\ pc = "off" /\ route = "none" /\ outcome = Pending /\ atSettle = NoEffects
  /\ root = "idle" /\ items = <<>> /\ task = <<>> /\ active = 0 /\ queue = <<>>
  /\ loopIdx = 0 /\ totalSize = 0
  /\ size = [n \in Slots |-> 0] /\ content = [n \in Slots |-> <<>>]
  /\ fx = NoEffects

Init ==
  /\ SanIdle
  /\ CtIdle
  /\ FnIdle
  /\ \E c \in Calls : input = c.input /\ opts = c.opts
  /\ pc = "init" /\ route = "none" /\ outcome = Pending /\ atSettle = NoEffects
  /\ root = "idle" /\ items = <<>> /\ task = <<>> /\ active = 0 /\ queue = <<>>
  /\ loopIdx = 0 /\ totalSize = 0
  /\ size = [n \in Slots |-> 0] /\ content = [n \in Slots |-> <<>>]
  /\ fx = NoEffects

(***************************************************************************)
(* SpecSan: build a JSON value, then sanitize it.                          *)
(***************************************************************************)
\* bounds of the values SpecSan builds
MaxBuildDepth == 3

MaxSanDepth == 3

Leaves == {Null, Num(1), Arr(<<>>), Parsed(EmptyFields)}

BuildKeys == {"a", "__proto__", "constructor", "prototype"}

\* the ways of putting v one level down
Wraps(v) ==
  {Arr(<<v>>), Arr(<<v, Num(1)>>), Arr(<<Str(<<"s">>), v>>)}
  \cup {Parsed(key :> v) : key \in BuildKeys}
  \cup {Parsed((key :> v) @@ ("a" :> Bool(TRUE))) : key \in BuildKeys \ {"a"}}
  \cup {Parsed(("a" :> v) @@ ("__proto__" :> Parsed("isAdmin" :> Bool(TRUE))))}

SanInit ==
  /\ LoadIdle
  /\ CtIdle
  /\ FnIdle
  /\ doc \in Leaves
  /\ sanPc = "build"
  /\ sanOpt = <<>>
  /\ sanOut = Return(Null)

Wrap ==
  /\ sanPc = "build"
  /\ calculateDepth(doc) < MaxBuildDepth
  /\ \E w \in Wraps(doc) : doc' = w
  /\ UNCHANGED <<sanPc, sanOpt, sanOut, ctVars, fnVars, loadVars>>

Sanitize ==
  /\ sanPc = "build"
  /\ \E o \in {<<>>} \cup {<<n>> : n \in 0..MaxSanDepth} :
       /\ sanOpt' = o
       /\ sanOut' = sanitizePrototypePollution(doc, o)
  /\ sanPc' = "done"
  /\ UNCHANGED <<doc, ctVars, fnVars, loadVars>>

SanNext == Wrap \/ Sanitize

SpecSan == SanInit /\ [][SanNext]_vars

(***************************************************************************)
(* The limiter (createLimiter) and the aggregation (Promise.all), as       *)
(* operators on the part of the state one turn of the event loop changes.  *)
(* rejected: the tasks that threw before their first await and whose       *)
(* .catch reaction has not run yet; failed: the first rejection Promise.all*)
(* saw in this turn.                                                       *)
(***************************************************************************)
Cur ==
  [task |-> task, active |-> active, queue |-> queue, fx |-> fx,
   outcome |-> outcome, atSettle |-> atSettle, items |-> items, kind |-> route,
   rejected |-> <<>>, failed |-> <<>>]

Commit(L) ==
  /\ task' = L.task /\ active' = L.active /\ queue' = L.queue /\ fx' = L.fx
  /\ outcome' = L.outcome /\ atSettle' = L.atSettle /\ items' = L.items
  /\ route' = L.kind

\* the promise of loadSafeJsonResources settles
Settle(L, oc) == [L EXCEPT !.outcome = oc, !.atSettle = L.fx]

\* execute: active++ and the task runs up to its first await
execute(L, i) ==
  LET L1 == [L EXCEPT !.active = @ + 1, !.fx.started = Append(@, i)]
  IN IF L.kind = "dir"
     THEN [L1 EXCEPT !.task[i].st = "stat", !.fx.fstat = @ \cup {i}]
     ELSE IF ~isHttpUrl(L.items[i])
     THEN [L1 EXCEPT !.task[i].st = "rejecting", !.rejected = Append(@, i)]
     ELSE [L1 EXCEPT !.task[i].st = "hdr", !.fx.fetch = @ \cup {i}]

\* the admission test of run, off by one
AdmitMutant(L, maxConcurrency) == L.active <= maxConcurrency

Admit(L, maxConcurrency) == L.active < maxConcurrency

\* run(task): execute now or defer
run(L, i, maxConcurrency) ==
  IF Admit(L, maxConcurrency) THEN execute(L, i)
  ELSE [L EXCEPT !.queue = Append(@, i), !.task[i].st = "queued"]

\* reactions that, when a load rejects, drop the deferred executes
settleTaskCancelMutant(L, i, r) ==
  LET L0 == IF r.ok THEN L ELSE [L EXCEPT !.queue = <<>>]
      L1 == [L0 EXCEPT !.active = @ - 1]
      L2 == IF Len(L1.queue) > 0
            THEN execute([L1 EXCEPT !.queue = Tail(@)], Head(L1.queue))
            ELSE L1
  IN [L2 EXCEPT !.task[i] = [st |-> IF r.ok THEN "ok" ELSE "err", res |-> r],
                !.fx.order = Append(@, i),
                !.failed = IF ~r.ok /\ @ = <<>> THEN <<r.code>> ELSE @]

\* a next() that takes the deferred execute pushed last
nextLastInMutant(L) ==
  LET L1 == [L EXCEPT !.active = @ - 1]
      n == Len(L1.queue)
  IN IF n > 0
     THEN execute([L1 EXCEPT !.queue = SubSeq(@, 1, n - 1)], L1.queue[n])
     ELSE L1

\* next(): active-- and the head of the queue, if any, executes
next(L) ==
  LET L1 == [L EXCEPT !.active = @ - 1]
  IN IF Len(L1.queue) > 0
     THEN execute([L1 EXCEPT !.queue = Tail(@)], Head(L1.queue))
     ELSE L1

\* reactions that call next() only when the task resolved
settleTaskLeakMutant(L, i, r) ==
  LET L1 == IF r.ok THEN next(L) ELSE L
  IN [L1 EXCEPT !.task[i] = [st |-> IF r.ok THEN "ok" ELSE "err", res |-> r],
                !.fx.order = Append(@, i),
                !.failed = IF ~r.ok /\ @ = <<>> THEN <<r.code>> ELSE @]

\* the .then / .catch reaction of execute: next(), then resolve or reject
settleTask(L, i, r) ==
  LET L1 == next(L)
  IN [L1 EXCEPT !.task[i] = [st |-> IF r.ok THEN "ok" ELSE "err", res |-> r],
                !.fx.order = Append(@, i),
                !.failed = IF ~r.ok /\ @ = <<>> THEN <<r.code>> ELSE @]

RECURSIVE SubmitFrom(_, _, _)

\* items.map(item => limitRun(...)), from item i on
SubmitFrom(L, i, maxConcurrency) ==
  IF i > Len(L.items) THEN L
  ELSE SubmitFrom(run(L, i, maxConcurrency), i + 1, maxConcurrency)

RECURSIVE Drain(_)

\* the reactions of the tasks that threw before their first await
Drain(L) ==
  IF L.rejected = <<>> THEN L
  ELSE Drain(settleTask([L EXCEPT !.rejected = Tail(@)], Head(L.rejected),
                        Throw("REMOTE_INDEX_URL_ERROR")))

\* an aggregation that waits for all tasks and returns those that succeeded
promiseAllMutant(L) ==
  IF L.outcome.st # "pending" THEN L
  ELSE IF \A i \in DOMAIN L.task : L.task[i].st \in {"ok", "err"}
  THEN Settle(L, Success([n \in 1..Cardinality({i \in DOMAIN L.task : L.task[i].st = "ok"}) |->
          L.task[CHOOSE i \in DOMAIN L.task :
                   /\ L.task[i].st = "ok"
                   /\ Cardinality({j \in 1..i : L.task[j].st = "ok"}) = n].res.val]))
  ELSE L

\* an aggregation that collects the results in the order the tasks settled
promiseAllByCompletionMutant(L) ==
  IF L.outcome.st # "pending" THEN L
  ELSE IF L.failed # <<>> THEN Settle(L, Failure(L.failed[1]))
  ELSE IF \A i \in DOMAIN L.task : L.task[i].st = "ok"
  THEN Settle(L, Success([n \in DOMAIN L.fx.order |-> L.task[L.fx.order[n]].res.val]))
  ELSE L

\* Promise.all(tasks): rejects with the first rejection, resolves with the
\* results in item order once every task has resolved
promiseAll(L) ==
  IF L.outcome.st # "pending" THEN L
  ELSE IF L.failed # <<>> THEN Settle(L, Failure(L.failed[1]))
  ELSE IF \A i \in DOMAIN L.task : L.task[i].st = "ok"
  THEN Settle(L, Success([i \in DOMAIN L.task |-> L.task[i].res.val]))
  ELSE L

\* the rest of a turn in which tasks settled
Turn(L) == promiseAll(Drain(L))

NewTasks(n) == [i \in 1..n |-> [st |-> "new", res |-> <<>>]]

\* a hook that is never called
onFileLoadedMutant(L, n, file) == L

\* opts.onFileLoaded(file), called by load n
onFileLoaded(L, n, file) ==
  [L EXCEPT !.fx.loaded[n] = @ + 1, !.fx.given[n] = Append(@, file)]

\* opts.onFileSkipped({source, reason}), called by load n
onFileSkipped(L, n) == [L EXCEPT !.fx.skipped = @ \cup {n}]

(***************************************************************************)
(* The steps of the loaders that are pure.                                 *)
(***************************************************************************)
ReadError == [t |-> "ioerror"]

StatResults == {[ok |-> TRUE, size |-> n] : n \in FileSizes} \cup {[ok |-> FALSE]}

\* the size gate with >= for >
FileTooLargeMutant(sz, o) == sz >= o.maxFileBytes

\* loadLocalJsonFile: stats.size > opts.maxFileBytes
FileTooLarge(sz, o) == sz > o.maxFileBytes

\* loadLocalJsonFile from JSON.parse on: parse, sanitize, depth check, record
parseAndBuild(c, filePath, o) ==
  IF c = ReadError THEN Throw("SystemError")
  ELSE IF c = NotJson THEN Throw("LOCAL_JSON_PARSE_ERROR")
  ELSE LET sanitized == sanitizePrototypePollution(c, <<o.maxJsonDepth>>)
       IN IF ~sanitized.ok THEN sanitized
          ELSE IF calculateDepth(sanitized.val) > o.maxJsonDepth
          THEN Throw("LOCAL_JSON_DEPTH_ERROR")
          ELSE Return([name |-> basename(filePath), data |-> sanitized.val,
                       source |-> filePath])

\* pieces in which the text json occurs
JsonPieces == {"application/json", "json"}

\* assertJsonContentType
isJsonContentType(ct, o) ==
  LET lc == [n \in DOMAIN ct |-> toLowerCase(ct[n])]
  IN IF o.looseJsonContentType
     THEN \E n \in DOMAIN lc : lc[n] \in JsonPieces
     ELSE Len(lc) > 0 /\ lc[1] = "application/json"

\* lc.includes("json")
includesJson(ct) == \E n \in DOMAIN ct : toLowerCase(ct[n]) \in JsonPieces

\* the two gates in the other order: content-type, then status
checkResponseContentTypeFirstMutant(res, o) ==
  IF ~isJsonContentType(res.ct, o) THEN Throw("REMOTE_CONTENT_TYPE_ERROR")
  ELSE IF ~res.ok THEN Throw("REMOTE_FETCH_STATUS_ERROR")
  ELSE Return(Null)

\* loadRemoteJson between fetchWithTimeout and res.json()
checkResponse(res, o) ==
  IF ~res.ok THEN Throw("REMOTE_FETCH_STATUS_ERROR")
  ELSE IF ~isJsonContentType(res.ct, o) THEN Throw("REMOTE_CONTENT_TYPE_ERROR")
  ELSE Return(Null)

\* the body sanitized with the sanitizer's default bound
loadRemoteJsonBodyMutant(b, o) ==
  IF b = NotJson THEN Throw("FetchError")
  ELSE sanitizePrototypePollution(b, <<>>)

\* loadRemoteJson from res.json() on
loadRemoteJsonBody(b, o) ==
  IF b = NotJson THEN Throw("FetchError")
  ELSE sanitizePrototypePollution(b, <<o.maxJsonDepth>>)

\* the test loadSafeJsonResources and loadRemoteIndex both make
isIndex(json) ==
  \/ json.t = "arr"
  \/ json.t = "obj" /\ "files" \in DOMAIN json.f /\ json.f["files"].t = "arr"

fileList(json) == IF json.t = "arr" THEN json.e ELSE json.f["files"].e

\* a filter that also drops the strings that are no URLs
IsStringMutant(v) == v.t = "str" /\ isHttpUrl(v.s)

IsString(v) == v.t = "str"

\* (fileList as unknown[]).filter(item => typeof item === "string")
urlsOf(json) ==
  LET strs == SelectSeq(fileList(json), IsString)
  IN [n \in DOMAIN strs |-> strs[n].s]

\* the count limit with >= for >
TooManyMutant(n, o) == n >= o.maxFiles

\* urls.length > opts.maxFiles / jsonFiles.length > opts.maxFiles
TooMany(n, o) == n > o.maxFiles

\* the total-size gate with >= for >
TotalTooLargeMutant(total, o) == total >= o.maxTotalBytes

\* totalSize > opts.maxTotalBytes
TotalTooLarge(total, o) == total > o.maxTotalBytes

(***************************************************************************)
(* SpecRec: a LoadedJsonFile is built from a file's content and handed to  *)
(* onFileLoaded and to the caller, which write to it.  Object.freeze makes *)
(* the properties of the one object it is given read-only; the objects     *)
(* reachable from it stay as writable as they were.                        *)
(***************************************************************************)
\* number of writes the receiving code makes
MaxWrites == 2

\* Object.freeze(obj): obj itself, marked frozen
ObjectFreeze(obj) == obj @@ [frozen |-> TRUE]

\* obj[key] = x: ignored (or refused with a TypeError) on a frozen object
Assign(obj, key, x) == IF obj.frozen THEN obj ELSE [obj EXCEPT ![key] = x]

RECURSIVE Put(_, _, _)

\* the value v with x written at path p (no object of v is frozen)
Put(v, p, x) ==
  IF p = <<>> THEN x
  ELSE IF v.t = "arr"
  THEN Arr([v.e EXCEPT ![Head(p).i] = Put(@, Tail(p), x)])
  ELSE Obj(v.proto, [v.f EXCEPT ![Head(p).k] = Put(@, Tail(p), x)])

\* a document with several members at two levels
DocWide ==
  Parsed(("a" :> Arr(<<Num(1), Bool(TRUE)>>)) @@
         ("b" :> Parsed(("c" :> Num(1)) @@ ("d" :> Str(<<"s">>)))) @@
         ("constructor" :> Parsed("prototype" :> Num(1))))

RecContents == {DocFlat, DocPolluted, DocDeep, DocNestedIndex, DocWide}

RecOpts == [maxJsonDepth |-> 3]

WrittenValues == {Num(7), Null, Str(<<"w">>)}

RecInit ==
  /\ SanIdle
  /\ CtIdle
  /\ LoadIdle
  /\ fnArg \in RecContents
  /\ fnRes = Null
  /\ fnPc = "new"
  /\ fnN = 0

\* loadLocalJsonFile from JSON.parse to Object.freeze
RecBuild ==
  /\ fnPc = "new"
  /\ \E filePath \in {<<"/d", "/", "cfg", ".json">>} :
       LET file == ObjectFreeze(parseAndBuild(fnArg, filePath, RecOpts).val)
       IN fnArg' = file /\ fnRes' = file
  /\ fnPc' = "done"
  /\ UNCHANGED <<fnN, sanVars, ctVars, loadVars>>

\* file.name = x, file.data = x, file.__source = x
RecAssignProperty ==
  /\ fnPc = "done" /\ fnN < MaxWrites
  /\ \E key \in {"name", "data", "source"}, x \in WrittenValues :
       fnRes' = Assign(fnRes, key, x)
  /\ fnN' = fnN + 1
  /\ UNCHANGED <<fnArg, fnPc, sanVars, ctVars, loadVars>>

\* file.data.a = x, file.data[0][0] = x, ...: a write inside data
RecAssignNested ==
  /\ fnPc = "done" /\ fnN < MaxWrites
  /\ \E p \in Paths(fnRes.data) \ {<<>>}, x \in WrittenValues :
       fnRes' = [fnRes EXCEPT !.data = Put(@, p, x)]
  /\ fnN' = fnN + 1
  /\ UNCHANGED <<fnArg, fnPc, sanVars, ctVars, loadVars>>

RecNext == RecBuild \/ RecAssignProperty \/ RecAssignNested

SpecRec == RecInit /\ [][RecNext]_vars

(***************************************************************************)
(* SpecOpt: mergeOptions applied to the options a caller passes.  An       *)
(* options object is the function from its own property names to their     *)
(* values; a property may be present and hold undefined.                   *)
(***************************************************************************)
Undefined == [t |-> "undefined"]

\* a function value, by identity
Fn(id) == [t |-> "fn", id |-> id]

\* a logger object, by the names of the methods it has
LoggerObject(methods) == [t |-> "logger", methods |-> methods]

\* an object literal with the own properties own
ObjectLiteral(own) == [t |-> "object", own |-> own]

NOOP_LOGGER == LoggerObject({"log"})

DEFAULT_OPTIONS ==
  [maxFiles |-> Num(100),
   maxTotalBytes |-> Num(10 * 1024 * 1024),
   maxFileBytes |-> Num(2 * 1024 * 1024),
   httpTimeoutMs |-> Num(8000),
   maxConcurrency |-> Num(5),
   looseJsonContentType |-> Bool(TRUE),
   maxJsonDepth |-> Num(50),
   logger |-> NOOP_LOGGER,
   onFileLoaded |-> Fn("noop"),
   onFileSkipped |-> Fn("noop")]

Knobs == DOMAIN DEFAULT_OPTIONS

\* opts?.key
OptionalMember(o, key) ==
  IF o = Undefined THEN Undefined
  ELSE IF key \in DOMAIN o.own THEN o.own[key] ELSE Undefined

\* a ?? b
NullishCoalesce(a, b) == IF a = Undefined \/ a = Null THEN b ELSE a

\* { ...a, ...o }: every own property of o is copied over a's, whatever
\* its value; spreading undefined copies nothing
Spread(a, o) ==
  IF o = Undefined THEN a
  ELSE [key \in DOMAIN a \cup DOMAIN o.own |->
          IF key \in DOMAIN o.own THEN o.own[key] ELSE a[key]]

mergeOptions(o) ==
  LET logger == NullishCoalesce(OptionalMember(o, "logger"),
                                DEFAULT_OPTIONS.logger)
  IN [Spread(DEFAULT_OPTIONS, o) EXCEPT
        !.logger = logger,
        !.onFileLoaded =
          NullishCoalesce(OptionalMember(o, "onFileLoaded"),
                          DEFAULT_OPTIONS.onFileLoaded),
        !.onFileSkipped =
          NullishCoalesce(OptionalMember(o, "onFileSkipped"),
                          DEFAULT_OPTIONS.onFileSkipped)]

\* the value a caller sets a knob to, different from the default
CallerValue ==
  [maxFiles |-> Num(7),
   maxTotalBytes |-> Num(4096),
   maxFileBytes |-> Num(1024),
   httpTimeoutMs |-> Num(500),
   maxConcurrency |-> Num(2),
   looseJsonContentType |-> Bool(FALSE),
   maxJsonDepth |-> Num(9),
   logger |-> LoggerObject({"debug", "info", "warn", "error"}),
   onFileLoaded |-> Fn("callerLoaded"),
   onFileSkipped |-> Fn("callerSkipped")]

\* the knobs SpecOpt varies; the others are omitted
VariedKnobs ==
  {"maxFiles", "maxTotalBytes", "maxFileBytes", "httpTimeoutMs",
   "maxConcurrency", "looseJsonContentType", "maxJsonDepth", "onFileLoaded"}

\* per knob: omitted, present and undefined, or set
CallerOptions ==
  {Undefined} \cup
  {ObjectLiteral([key \in {k \in VariedKnobs : sel[k] # "omitted"} |->
                    IF sel[key] = "undefined" THEN Undefined
                    ELSE CallerValue[key]]) :
     sel \in [VariedKnobs -> {"omitted", "undefined", "set"}]}

OptInit ==
  /\ SanIdle
  /\ CtIdle
  /\ LoadIdle
  /\ fnArg \in CallerOptions
  /\ fnRes = Null
  /\ fnPc = "new"
  /\ fnN = 0

\* const opts = mergeOptions(options)
OptMerge ==
  /\ fnPc = "new"
  /\ fnRes' = mergeOptions(fnArg)
  /\ fnPc' = "merged"
  /\ UNCHANGED <<fnArg, fnN, sanVars, ctVars, loadVars>>

OptNext == OptMerge

SpecOpt == OptInit /\ [][OptNext]_vars

\* the caller gave knob key a value
KnobSet(o, key) == OptionalMember(o, key) # Undefined

\* C23 (as claimed): in the resolved configuration every knob is defined:
\* a knob the caller omitted or left undefined has its default, a knob
\* the caller set has the caller's value.
C23_EveryKnobResolved ==
  fnPc = "merged" =>
    \A key \in Knobs :
      /\ fnRes[key] # Undefined
      /\ fnRes[key] = IF KnobSet(fnArg, key) THEN fnArg.own[key]
                      ELSE DEFAULT_OPTIONS[key]

(***************************************************************************)
(* SpecLog: the options of a call are resolved, then the loader emits log  *)
(* lines through logWith.                                                  *)
(***************************************************************************)
\* number of log lines emitted
MaxEmits == 2

LogLevels == {"debug", "info", "warn", "error"}

\* the methods a logger object may have
LoggerMethods == LogLevels \cup {"log"}

\* logWith(options, level, message, meta): options.logger.log(level, ...);
\* calling a member that is undefined throws a TypeError
logWith(options, level) ==
  IF "log" \in options.logger.methods
  THEN Return(<<"log", level>>)
  ELSE Throw("TypeError")

\* the caller's options: none, no logger, logger: undefined, or a logger
\* object with some of the methods
LoggerOptions ==
  {Undefined, ObjectLiteral(<<>>), ObjectLiteral([logger |-> Undefined])}
  \cup {ObjectLiteral([logger |-> LoggerObject(m)]) :
          m \in SUBSET LoggerMethods}

LogInit ==
  /\ SanIdle
  /\ CtIdle
  /\ LoadIdle
  /\ fnArg \in LoggerOptions
  /\ fnRes = Null
  /\ fnPc = "new"
  /\ fnN = 0

\* const opts = mergeOptions(options)
LogMerge ==
  /\ fnPc = "new"
  /\ fnRes' = [options |-> mergeOptions(fnArg), calls |-> <<>>,
               error |-> "none"]
  /\ fnPc' = "merged"
  /\ UNCHANGED <<fnArg, fnN, sanVars, ctVars, loadVars>>

\* logWith(opts, level, ...) at one of the loader's log statements; an
\* exception leaves the function that logs
LogEmit ==
  /\ fnPc = "merged" /\ fnN < MaxEmits
  /\ \E level \in LogLevels :
       LET r == logWith(fnRes.options, level)
       IN IF r.ok
          THEN /\ fnRes' = [fnRes EXCEPT !.calls = Append(@, r.val)]
               /\ fnPc' = fnPc
          ELSE /\ fnRes' = [fnRes EXCEPT !.error = r.code]
               /\ fnPc' = "threw"
  /\ fnN' = fnN + 1
  /\ UNCHANGED <<fnArg, sanVars, ctVars, loadVars>>

LogNext == LogMerge \/ LogEmit

SpecLog == LogInit /\ [][LogNext]_vars

\* the caller injected a logger with only methods named after levels
PartialLogger ==
  /\ OptionalMember(fnArg, "logger") # Undefined
  /\ fnArg.own.logger.methods \subseteq LogLevels

\* C25 (as claimed): with an injected logger that has only some of debug,
\* info, warn and error, no log emission raises an error.
C25_AbsentLevelSkippedSilently ==
  (fnPc \in {"merged", "threw"} /\ PartialLogger) =>
    fnPc = "merged" /\ fnRes.error = "none"

(***************************************************************************)
(* SpecCt: build a content-type header, then check a 200 response that     *)
(* carries it.                                                             *)
(***************************************************************************)
\* bound of the headers SpecCt builds
MaxCtPieces == 3

\* the pieces a header is built from; none but "application/json" (in either
\* letter case) and "json" holds the text json, whole or in part
CtPieces ==
  {"application/json", "Application/JSON", "; charset=utf-8", "-seq", "text/",
   "json"}

CtInit ==
  /\ SanIdle
  /\ LoadIdle
  /\ FnIdle
  /\ ctHdr = <<>>
  /\ ctPc = "build"
  /\ ctLoose \in BOOLEAN
  /\ ctOut = Return(Null)

CtAppend ==
  /\ ctPc = "build"
  /\ Len(ctHdr) < MaxCtPieces
  /\ \E piece \in CtPieces : ctHdr' = Append(ctHdr, piece)
  /\ UNCHANGED <<ctPc, ctLoose, ctOut, sanVars, fnVars, loadVars>>

CtCheck ==
  /\ ctPc = "build"
  /\ ctOut' = checkResponse([ok |-> TRUE, ct |-> ctHdr],
                            [looseJsonContentType |-> ctLoose])
  /\ ctPc' = "done"
  /\ UNCHANGED <<ctHdr, ctLoose, sanVars, fnVars, loadVars>>

CtNext == CtAppend \/ CtCheck

SpecCt == CtInit /\ [][CtNext]_vars

(***************************************************************************)
(* Spec: one call of loadSafeJsonResources.                                *)
(***************************************************************************)
\* the call itself, up to its first await
Call ==
  /\ pc = "init"
  /\ IF ~ensureStringInput(input).ok
     THEN /\ Commit(Settle(Cur, Failure(ensureStringInput(input).code)))
          /\ pc' = "done" /\ root' = root
     ELSE IF inputStr = <<>>
     THEN /\ Commit(Settle(Cur, Failure("INPUT_VALIDATION_ERROR")))
          /\ pc' = "done" /\ root' = root
     ELSE IF isHttpUrl(inputStr)
     THEN /\ Commit([Cur EXCEPT !.kind = "remote", !.fx.fetch = @ \cup {0}])
          /\ pc' = "root" /\ root' = "hdr"
     ELSE /\ Commit([Cur EXCEPT !.fx.probed = TRUE])
          /\ pc' = "rootStat" /\ root' = root
  /\ UNCHANGED <<input, opts, loopIdx, totalSize, size, content, sanVars, ctVars, fnVars>>

\* fs.stat(resolved) completes
RootStatDone ==
  /\ pc = "rootStat"
  /\ \E kind \in {"missing", "file", "dir", "other"} :
       LET K == [Cur EXCEPT !.fx.pathKind = kind] IN
       CASE kind = "missing" ->
              /\ Commit(Settle(K, Failure("LOCAL_PATH_NOT_FOUND")))
              /\ pc' = "done" /\ root' = root
         [] kind = "file" /\ ~isJsonFile(resolve(inputStr)) ->
              /\ Commit(Settle(K, Failure("LOCAL_FILE_EXTENSION_ERROR")))
              /\ pc' = "done" /\ root' = root
         [] kind = "file" /\ isJsonFile(resolve(inputStr)) ->
              /\ Commit([K EXCEPT !.kind = "file", !.fx.fstat = @ \cup {0}])
              /\ pc' = "root" /\ root' = "stat"
         [] kind = "dir" ->
              /\ Commit([K EXCEPT !.kind = "dir", !.fx.listed = TRUE])
              /\ pc' = "readdir" /\ root' = root
         [] kind = "other" ->
              /\ Commit(Settle(K, Failure("LOCAL_PATH_TYPE_ERROR")))
              /\ pc' = "done" /\ root' = root
  /\ UNCHANGED <<input, opts, loopIdx, totalSize, size, content, sanVars, ctVars, fnVars>>

\* single file: the fs.stat of loadLocalJsonFile completes
RootFileStatDone ==
  /\ pc = "root" /\ root = "stat"
  /\ \E r \in StatResults :
       IF ~r.ok
       THEN /\ Commit(Settle(Cur, Failure("SystemError")))
            /\ pc' = "done" /\ root' = "done" /\ size' = size
       ELSE /\ size' = [size EXCEPT ![0] = r.size]
            /\ IF FileTooLarge(r.size, opts)
               THEN /\ Commit(Settle(onFileSkipped(Cur, 0),
                                     Failure("LOCAL_FILE_SIZE_ERROR")))
                    /\ pc' = "done" /\ root' = "done"
               ELSE /\ Commit([Cur EXCEPT !.fx.read = @ \cup {0}])
                    /\ pc' = pc /\ root' = "read"
  /\ UNCHANGED <<input, opts, loopIdx, totalSize, content, sanVars, ctVars, fnVars>>

\* single file: fs.readFile completes
RootFileReadDone ==
  /\ pc = "root" /\ root = "read"
  /\ \E c \in FileContents \cup {ReadError} :
       LET r == parseAndBuild(c, resolve(inputStr), opts)
       IN /\ content' = [content EXCEPT ![0] = <<c>>]
          /\ IF r.ok
             THEN Commit(Settle(onFileLoaded(Cur, 0, r.val), Success(<<r.val>>)))
             ELSE Commit(Settle(Cur, Failure(r.code)))
  /\ pc' = "done" /\ root' = "done"
  /\ UNCHANGED <<input, opts, loopIdx, totalSize, size, sanVars, ctVars, fnVars>>

\* fs.readdir completes
ReaddirDone ==
  /\ pc = "readdir"
  /\ \/ /\ Commit(Settle(Cur, Failure("SystemError")))
        /\ pc' = "done" /\ UNCHANGED loopIdx
     \/ \E files \in DirListings :
          LET jsonFiles == SelectSeq(files, isJsonFile)
              L == [Cur EXCEPT !.items = jsonFiles]
          IN IF Len(jsonFiles) = 0
             THEN /\ Commit(Settle(L, Success(<<>>)))
                  /\ pc' = "done" /\ UNCHANGED loopIdx
             ELSE IF TooMany(Len(jsonFiles), opts)
             THEN /\ Commit(Settle(L, Failure("LOCAL_DIR_LIMIT_ERROR")))
                  /\ pc' = "done" /\ UNCHANGED loopIdx
             ELSE /\ Commit([L EXCEPT !.task = NewTasks(Len(jsonFiles)),
                                      !.fx.statted = @ \cup {1}])
                  /\ pc' = "dirStat" /\ loopIdx' = 1
  /\ UNCHANGED <<input, opts, root, totalSize, size, content, sanVars, ctVars, fnVars>>

\* the stat loop of loadLocalDirectory: one fs.stat completes
DirStatDone ==
  /\ pc = "dirStat"
  /\ \E r \in StatResults :
       IF ~r.ok
       THEN /\ Commit(Settle(Cur, Failure("SystemError")))
            /\ pc' = "done" /\ UNCHANGED <<loopIdx, totalSize, size>>
       ELSE /\ size' = [size EXCEPT ![loopIdx] = r.size]
            /\ totalSize' = totalSize + r.size
            /\ IF TotalTooLarge(totalSize + r.size, opts)
               THEN /\ Commit(Settle(Cur, Failure("LOCAL_DIR_TOTAL_SIZE_ERROR")))
                    /\ pc' = "done" /\ UNCHANGED loopIdx
               ELSE IF loopIdx < Len(items)
               THEN /\ Commit([Cur EXCEPT !.fx.statted = @ \cup {loopIdx + 1}])
                    /\ pc' = pc /\ loopIdx' = loopIdx + 1
               ELSE /\ Commit(Turn(SubmitFrom(Cur, 1, opts.maxConcurrency)))
                    /\ pc' = "fanout" /\ UNCHANGED loopIdx
  /\ UNCHANGED <<input, opts, root, content, sanVars, ctVars, fnVars>>

\* directory member i: the fs.stat of loadLocalJsonFile completes
TaskStatDone(i) ==
  /\ i \in DOMAIN task /\ task[i].st = "stat"
  /\ \E ok \in BOOLEAN :
       IF ~ok
       THEN Commit(Turn(settleTask(Cur, i, Throw("SystemError"))))
       ELSE IF FileTooLarge(size[i], opts)
       THEN Commit(Turn(settleTask(onFileSkipped(Cur, i), i,
                                   Throw("LOCAL_FILE_SIZE_ERROR"))))
       ELSE Commit([Cur EXCEPT !.task[i].st = "read", !.fx.read = @ \cup {i}])
  /\ UNCHANGED <<input, opts, pc, root, loopIdx, totalSize, size, content, sanVars, ctVars, fnVars>>

\* directory member i: fs.readFile completes
TaskReadDone(i) ==
  /\ i \in DOMAIN task /\ task[i].st = "read"
  /\ \E c \in FileContents \cup {ReadError} :
       LET r == parseAndBuild(c, join(resolve(inputStr), items[i]), opts)
           L == IF r.ok THEN onFileLoaded(Cur, i, r.val) ELSE Cur
       IN /\ content' = [content EXCEPT ![i] = <<c>>]
          /\ Commit(Turn(settleTask(L, i, r)))
  /\ UNCHANGED <<input, opts, pc, root, loopIdx, totalSize, size, sanVars, ctVars, fnVars>>

\* what awaiting fetchWithTimeout yields: a response, or a transport
\* failure / timeout turned into REMOTE_FETCH_ERROR
FetchResults ==
  {Return(res) : res \in Responses} \cup {Throw("REMOTE_FETCH_ERROR")}

\* const res = await fetchWithTimeout(url, opts), in load n
received(L, n, f) ==
  IF ~f.ok THEN L
  ELSE [L EXCEPT !.fx.resp[n] =
          <<[ok |-> f.val.ok, json |-> includesJson(f.val.ct)]>>]

\* loadRemoteJson up to res.json()
afterFetch(f, o) == IF ~f.ok THEN f ELSE checkResponse(f.val, o)

\* loadRemoteIndex, entered with the sanitized index
loadRemoteIndex(L0, json, o) ==
  LET urls == IF isIndex(json) THEN urlsOf(json) ELSE <<>>
      L == [L0 EXCEPT !.kind = "index", !.items = urls]
  IN IF ~isIndex(json) THEN Settle(L, Failure("REMOTE_INDEX_FORMAT_ERROR"))
     ELSE IF Len(urls) = 0 THEN Settle(L, Success(<<>>))
     ELSE IF TooMany(Len(urls), o) THEN Settle(L, Failure("REMOTE_INDEX_LIMIT_ERROR"))
     ELSE Turn(SubmitFrom([L EXCEPT !.task = NewTasks(Len(urls))], 1,
                          o.maxConcurrency))

\* the input URL: fetch resolves or fails
RootHeadersDone ==
  /\ pc = "root" /\ root = "hdr"
  /\ \E f \in FetchResults :
       LET r == afterFetch(f, opts)
       IN IF r.ok
          THEN /\ Commit([received(Cur, 0, f) EXCEPT !.fx.body = @ \cup {0}])
               /\ pc' = pc /\ root' = "body"
          ELSE /\ Commit(Settle(received(Cur, 0, f), Failure(r.code)))
               /\ pc' = "done" /\ root' = "done"
  /\ UNCHANGED <<input, opts, loopIdx, totalSize, size, content, sanVars, ctVars, fnVars>>

\* the input URL: res.json() completes; single document or index fan-out
RootBodyDone ==
  /\ pc = "root" /\ root = "body"
  /\ \E b \in RootBodies :
       LET r == loadRemoteJsonBody(b, opts)
       IN /\ content' = [content EXCEPT ![0] = <<b>>]
          /\ IF ~r.ok
             THEN Commit(Settle(Cur, Failure(r.code))) /\ pc' = "done"
             ELSE IF isIndex(r.val)
             THEN Commit(loadRemoteIndex(Cur, r.val, opts)) /\ pc' = "fanout"
             ELSE LET file == [name |-> pathname(inputStr), data |-> r.val,
                               source |-> inputStr]
                  IN /\ Commit(Settle(onFileLoaded(Cur, 0, file), Success(<<file>>)))
                     /\ pc' = "done"
  /\ root' = "done"
  /\ UNCHANGED <<input, opts, loopIdx, totalSize, size, sanVars, ctVars, fnVars>>

\* index member i: fetch resolves or fails
TaskHeadersDone(i) ==
  /\ i \in DOMAIN task /\ task[i].st = "hdr"
  /\ \E f \in FetchResults :
       LET r == afterFetch(f, opts)
       IN IF r.ok
          THEN Commit([received(Cur, i, f) EXCEPT !.task[i].st = "body",
                                                  !.fx.body = @ \cup {i}])
          ELSE Commit(Turn(settleTask(received(Cur, i, f), i, r)))
  /\ UNCHANGED <<input, opts, pc, root, loopIdx, totalSize, size, content, sanVars, ctVars, fnVars>>

\* index member i: res.json() completes
TaskBodyDone(i) ==
  /\ i \in DOMAIN task /\ task[i].st = "body"
  /\ \E b \in MemberBodies :
       LET r == loadRemoteJsonBody(b, opts)
           file == [name |-> basename(pathname(items[i])), data |-> r.val,
                    source |-> items[i]]
       IN /\ content' = [content EXCEPT ![i] = <<b>>]
          /\ IF r.ok
             THEN Commit(Turn(settleTask(onFileLoaded(Cur, i, file), i,
                                         Return(file))))
             ELSE Commit(Turn(settleTask(Cur, i, r)))
  /\ UNCHANGED <<input, opts, pc, root, loopIdx, totalSize, size, sanVars, ctVars, fnVars>>

Next ==
  \/ Call
  \/ RootStatDone
  \/ RootFileStatDone
  \/ RootFileReadDone
  \/ ReaddirDone
  \/ DirStatDone
  \/ RootHeadersDone
  \/ RootBodyDone
  \/ \E i \in 1..MaxEntries : TaskStatDone(i)
  \/ \E i \in 1..MaxEntries : TaskReadDone(i)
  \/ \E i \in 1..MaxEntries : TaskHeadersDone(i)
  \/ \E i \in 1..MaxEntries : TaskBodyDone(i)

Spec == Init /\ [][Next]_vars

\* the steps of per-item load i: one of its pending I/O operations completes
TaskStep(i) ==
  TaskStatDone(i) \/ TaskReadDone(i) \/ TaskHeadersDone(i) \/ TaskBodyDone(i)

\* every I/O operation a started load waits for completes: the file system
\* answers, and fetchWithTimeout aborts a request after httpTimeoutMs
\* the calls whose limits let every item through to the limiter
LiveInit ==
  /\ Init
  /\ opts.maxConcurrency >= 1 /\ opts.maxFiles = 3 /\ opts.maxJsonDepth = 2
  /\ opts.maxFileBytes = 2 /\ opts.looseJsonContentType

SpecLive ==
  LiveInit /\ [][Next]_vars /\ \A i \in 1..MaxEntries : WF_vars(TaskStep(i))

\* the values of maxConcurrency mergeOptions lets through, negative and zero
\* among them
AnyConcurrency == {-1, 0, 1, 2}

\* calls as in Init, with any maxConcurrency and limits that let every item
\* through to the limiter
AnyConcurrencyInit ==
  /\ SanIdle
  /\ CtIdle
  /\ FnIdle
  /\ \E c \in Calls, m \in AnyConcurrency :
       /\ c.opts.maxConcurrency = 1 /\ c.opts.maxFiles = 3
       /\ c.opts.maxJsonDepth = 2 /\ c.opts.maxFileBytes = 2
       /\ c.opts.looseJsonContentType
       /\ input = c.input
       /\ opts = [c.opts EXCEPT !.maxConcurrency = m]
  /\ pc = "init" /\ route = "none" /\ outcome = Pending /\ atSettle = NoEffects
  /\ root = "idle" /\ items = <<>> /\ task = <<>> /\ active = 0 /\ queue = <<>>
  /\ loopIdx = 0 /\ totalSize = 0
  /\ size = [n \in Slots |-> 0] /\ content = [n \in Slots |-> <<>>]
  /\ fx = NoEffects

\* every I/O operation a started load waits for completes
SpecAnyConcurrency ==
  AnyConcurrencyInit /\ [][Next]_vars
    /\ \A i \in 1..MaxEntries : WF_vars(TaskStep(i))

(***************************************************************************)
(* SpecFetch: one loadRemoteJson call against the clock.  fetchWithTimeout *)
(* arms a timer of httpTimeoutMs that aborts the request; the server       *)
(* answers when it answers, or never.  fnN is the time elapsed, in ticks.  *)
(***************************************************************************)
\* how long the clock is followed
MaxTicks == 4

FetchOpts ==
  [httpTimeoutMs : {1, 2}, looseJsonContentType : BOOLEAN, maxJsonDepth : {1, 2}]

\* the timer of setTimeout is due and has not been cleared
TimerDue == fnRes.timer = "armed" /\ fnN >= fnArg.httpTimeoutMs

FetchInit ==
  /\ SanIdle
  /\ CtIdle
  /\ LoadIdle
  /\ fnArg \in FetchOpts
  /\ fnRes = [timer |-> "armed", aborted |-> FALSE, out |-> Pending]
  /\ fnPc = "hdr"
  /\ fnN = 0

\* time passes; a due timer runs before any later time is reached
FetchTick ==
  /\ fnN < MaxTicks /\ ~TimerDue
  /\ fnN' = fnN + 1
  /\ UNCHANGED <<fnArg, fnRes, fnPc, sanVars, ctVars, loadVars>>

\* the timer callback: controller.abort().  A fetch still awaited rejects,
\* and the catch block turns that into REMOTE_FETCH_ERROR; a body still
\* being read would fail its res.json() with the abort error itself
FetchTimerFires ==
  /\ TimerDue
  /\ fnRes' = [fnRes EXCEPT
                 !.timer = "fired", !.aborted = TRUE,
                 !.out = IF fnPc = "hdr" THEN Throw("REMOTE_FETCH_ERROR")
                         ELSE IF fnPc = "body" THEN Throw("AbortError")
                         ELSE @]
  /\ fnPc' = "done"
  /\ UNCHANGED <<fnArg, fnN, sanVars, ctVars, loadVars>>

\* await fetch(...) settles: clearTimeout, then the status and content-type
\* gates of loadRemoteJson
FetchHeadersDone ==
  /\ fnPc = "hdr"
  /\ \E f \in FetchResults :
       LET r == afterFetch(f, fnArg)
       IN /\ fnRes' = [fnRes EXCEPT !.timer = "cleared",
                                    !.out = IF r.ok THEN @ ELSE r]
          /\ fnPc' = IF r.ok THEN "body" ELSE "done"
  /\ UNCHANGED <<fnArg, fnN, sanVars, ctVars, loadVars>>

\* await res.json() settles
FetchBodyDone ==
  /\ fnPc = "body"
  /\ \E b \in FileContents :
       fnRes' = [fnRes EXCEPT !.out = loadRemoteJsonBody(b, fnArg)]
  /\ fnPc' = "done"
  /\ UNCHANGED <<fnArg, fnN, sanVars, ctVars, loadVars>>

FetchNext == FetchTick \/ FetchTimerFires \/ FetchHeadersDone \/ FetchBodyDone

SpecFetch == FetchInit /\ [][FetchNext]_vars

(***************************************************************************)
(* Claims about the sanitizer (checked under SpecSan).                     *)
(***************************************************************************)
LookupNames == ObjectPrototypeMembers \cup BuildKeys \cup {"prototype", "isAdmin"}

Sanitized == sanPc = "done" /\ sanOut.ok

\* C1: in every accepted value's result no object node, at any nesting
\* level (inside arrays too), has a key __proto__, constructor or prototype,
\* and looking up any name that is not an own key of the node finds nothing
\* (no inherited members).
C1_NoPollutionKeyNoInherited ==
  Sanitized =>
    \A p \in Paths(sanOut.val) :
      LET n == At(sanOut.val, p)
      IN n.t = "obj" =>
           /\ DOMAIN n.f \cap {"__proto__", "constructor", "prototype"} = {}
           /\ \A name \in LookupNames :
                name \notin DOMAIN n.f => ~Get(n, name).found

\* an accepted input with a pollution key on an object that sits in an array,
\* two or more levels down, next to a key that is kept
C1_Witness ==
  /\ Sanitized
  /\ \E p \in Paths(doc) :
       /\ Len(p) >= 3
       /\ IsKeyStep(p[Len(p)]) /\ p[Len(p)].k = "constructor"
       /\ ~IsKeyStep(p[Len(p) - 1])
       /\ CleanPath(SubSeq(p, 1, Len(p) - 1))
       /\ "a" \in DOMAIN At(sanOut.val, SubSeq(p, 1, Len(p) - 1)).f

ReadmeExample ==
  Parsed("user" :> Parsed("__proto__" :> Parsed("isAdmin" :> Bool(TRUE))))

\* C2: the result is the input with every pollution key (and its subtree)
\* removed at every level and nothing else changed: the result's paths are
\* exactly the input's paths that go through no pollution key, and at each of
\* them the node has the same kind, the same array length, the same scalar;
\* {"user":{"__proto__":{"isAdmin":true}}} becomes {"user":{}}.
C2_OnlyPollutionKeysRemoved ==
  Sanitized =>
    /\ Paths(sanOut.val) = {p \in Paths(doc) : CleanPath(p)}
    /\ \A p \in Paths(sanOut.val) : Shape(At(sanOut.val, p)) = Shape(At(doc, p))
    /\ sanitizePrototypePollution(ReadmeExample, <<>>)
         = Return(Obj("null", "user" :> Obj("null", EmptyFields)))

\* an accepted input holding a two-element array whose object element has a
\* kept key and a stripped key, so that the result differs from the input
C2_Witness ==
  /\ Sanitized
  /\ \E p \in Paths(doc) :
       /\ Len(p) >= 2
       /\ At(doc, p).t = "obj"
       /\ {"a", "__proto__"} \subseteq DOMAIN At(doc, p).f
       /\ ~IsKeyStep(p[Len(p)])
       /\ Len(At(doc, SubSeq(p, 1, Len(p) - 1)).e) = 2
       /\ CleanPath(p)
       /\ DOMAIN At(sanOut.val, p).f = {"a"}

\* the depth of v when what lies under a pollution key is left out
WalkedDepth(v) == Max({Len(p) : p \in {q \in Paths(v) : CleanPath(q)}})

\* C29 (as claimed): sanitizePrototypePollution(v, maxDepth) fails, with
\* JSON_DEPTH_SANITATION_LIMIT, exactly when the nesting depth of the input
\* v is above maxDepth.
C29_FailsIffInputDeeper ==
  (sanPc = "done" /\ sanOpt # <<>>) =>
    /\ ~sanOut.ok <=> calculateDepth(doc) > sanOpt[1]
    /\ ~sanOut.ok => sanOut.code = "JSON_DEPTH_SANITATION_LIMIT"

\* C29 (amended): it fails, with JSON_DEPTH_SANITATION_LIMIT, exactly when
\* the depth of v outside the values of pollution keys is above maxDepth; a
\* value of such depth exactly maxDepth is accepted.
C29_FailsIffWalkedDeeper ==
  (sanPc = "done" /\ sanOpt # <<>>) =>
    /\ ~sanOut.ok <=> WalkedDepth(doc) > sanOpt[1]
    /\ ~sanOut.ok => sanOut.code = "JSON_DEPTH_SANITATION_LIMIT"

\* accepted at exactly maxDepth although the input is deeper under a
\* pollution key
C29_Witness ==
  /\ Sanitized
  /\ sanOpt = <<1>>
  /\ WalkedDepth(doc) = 1
  /\ calculateDepth(doc) = 3

\* C24: sanitizing the result of an accepted sanitization again, with the
\* same depth bound, succeeds and returns a value identical to that result.
C24_SanitizeIdempotent ==
  Sanitized => sanitizePrototypePollution(sanOut.val, sanOpt) = sanOut

\* a value with a pollution key was accepted at a bound its result just fits
C24_Witness ==
  /\ Sanitized
  /\ sanOpt = <<2>>
  /\ \E p \in Paths(doc) : ~CleanPath(p)
  /\ calculateDepth(sanOut.val) = 2
  /\ sanitizePrototypePollution(sanOut.val, sanOpt) = sanOut

(***************************************************************************)
(* Claims about one call of loadSafeJsonResources (checked under Spec).    *)
(***************************************************************************)
\* structural depth: a scalar, null or an empty container is 0, each descent
\* into an array element or an object value adds 1
StructuralDepth(v) == Max({Len(p) : p \in Paths(v)})

\* what sanitization leaves of a parsed document, whatever its depth
Stripped(v) == sanitizePrototypePollution(v, <<>>).val

IsDocument(c) == c # <<>> /\ c[1] \notin {NotJson, ReadError}

\* the per-item loads that have started and not settled
InFlight == {i \in DOMAIN task : task[i].st \in {"stat", "read", "hdr", "body"}}

RECURSIVE SumSizes(_)

\* the running total after the first j members
SumSizes(j) == IF j = 0 THEN 0 ELSE SumSizes(j - 1) + size[j]

\* C3: every LoadedFile the call returns, by whichever route, has data of
\* structural depth at most maxJsonDepth.
C3_ReturnedDepthBounded ==
  outcome.st = "ok" =>
    \A n \in DOMAIN outcome.files :
      StructuralDepth(outcome.files[n].data) <= opts.maxJsonDepth

\* an index member returned with data exactly maxJsonDepth deep, from a body
\* that was deeper before __proto__ was stripped
C3_Witness ==
  /\ route = "index" /\ outcome.st = "ok"
  /\ \E n \in DOMAIN outcome.files :
       /\ StructuralDepth(outcome.files[n].data) = opts.maxJsonDepth
       /\ StructuralDepth(content[n][1]) > opts.maxJsonDepth

\* C4 (as claimed): a local file whose sanitized content has depth
\* maxJsonDepth loads, and one of depth maxJsonDepth + 1 fails with
\* LOCAL_JSON_DEPTH_ERROR, raised by the check after sanitization.
C4_DepthErrorFromPostCheck ==
  (route = "file" /\ root = "done" /\ IsDocument(content[0])) =>
    LET d == StructuralDepth(Stripped(content[0][1]))
    IN /\ d = opts.maxJsonDepth => outcome.st = "ok"
       /\ d = opts.maxJsonDepth + 1 => outcome = Failure("LOCAL_JSON_DEPTH_ERROR")

\* C5: a single local file of size maxFileBytes is read; one of size
\* maxFileBytes + 1 fails with LOCAL_FILE_SIZE_ERROR, onFileSkipped was called
\* for it before the failure, and its content is never read or parsed.
C5_FileSizeBoundary ==
  (route = "file" /\ size[0] > 0) =>
    /\ size[0] = opts.maxFileBytes => 0 \in fx.read
    /\ size[0] = opts.maxFileBytes + 1 =>
         /\ outcome = Failure("LOCAL_FILE_SIZE_ERROR")
         /\ 0 \in atSettle.skipped
         /\ 0 \notin fx.read /\ content[0] = <<>>

C5_Witness ==
  /\ route = "file" /\ size[0] = opts.maxFileBytes + 1
  /\ outcome = Failure("LOCAL_FILE_SIZE_ERROR")

\* C6: with maxConcurrency = k >= 1, at most k per-item loads are started and
\* not yet settled, in every state of a fan-out over the one limiter.
C6_ConcurrencyBound ==
  opts.maxConcurrency >= 1 => Cardinality(InFlight) <= opts.maxConcurrency

\* more items than slots: k loads in flight and the rest waiting
C6_Witness ==
  /\ opts.maxConcurrency = 2 /\ Len(items) = 3
  /\ Cardinality(InFlight) = 2 /\ Len(queue) = 1

\* C7: an index with more string entries than maxFiles fails with
\* REMOTE_INDEX_LIMIT_ERROR and no listed URL is ever fetched; one with
\* exactly maxFiles (or fewer) string entries passes the check.
C7_IndexLimitBeforeFetch ==
  route = "index" =>
    /\ Len(items) > opts.maxFiles =>
         /\ outcome = Failure("REMOTE_INDEX_LIMIT_ERROR")
         /\ fx.fetch = {0} /\ fx.body = {0} /\ task = <<>>
    /\ (Len(items) >= 1 /\ Len(items) <= opts.maxFiles) =>
         /\ Len(task) = Len(items)
         /\ outcome # Failure("REMOTE_INDEX_LIMIT_ERROR")

C7_Witness ==
  /\ route = "index" /\ Len(items) = opts.maxFiles + 1
  /\ outcome = Failure("REMOTE_INDEX_LIMIT_ERROR")

\* C8: a directory with more .json entries than maxFiles fails with
\* LOCAL_DIR_LIMIT_ERROR before any candidate is stat'ed or read; one with
\* exactly maxFiles (or fewer) .json entries passes the check.
C8_DirLimitBeforeStat ==
  route = "dir" =>
    /\ Len(items) > opts.maxFiles =>
         /\ outcome = Failure("LOCAL_DIR_LIMIT_ERROR")
         /\ fx.statted = {} /\ fx.fstat = {} /\ fx.read = {}
    /\ (Len(items) >= 1 /\ Len(items) <= opts.maxFiles) =>
         /\ 1 \in fx.statted
         /\ outcome # Failure("LOCAL_DIR_LIMIT_ERROR")

C8_Witness ==
  /\ route = "dir" /\ Len(items) = opts.maxFiles + 1
  /\ outcome = Failure("LOCAL_DIR_LIMIT_ERROR")

\* C9: the directory's candidates are stat'ed one by one in listing order;
\* the load fails with LOCAL_DIR_TOTAL_SIZE_ERROR at the first file that
\* makes the running total greater than maxTotalBytes, later files are not
\* stat'ed and nothing has been read; a total equal to maxTotalBytes passes.
C9_TotalSizeShortCircuit ==
  route = "dir" =>
    /\ \E j \in 0..Len(items) : fx.statted = 1..j
    /\ outcome = Failure("LOCAL_DIR_TOTAL_SIZE_ERROR") =>
         LET j == Cardinality(fx.statted)
         IN /\ j >= 1 /\ size[j] > 0
            /\ SumSizes(j) > opts.maxTotalBytes
            /\ SumSizes(j - 1) <= opts.maxTotalBytes
            /\ fx.read = {} /\ fx.fstat = {}
    /\ \A j \in 1..Len(items) :
         (size[j] > 0 /\ SumSizes(j) > opts.maxTotalBytes) =>
           outcome = Failure("LOCAL_DIR_TOTAL_SIZE_ERROR")
    /\ (/\ Len(items) >= 1
        /\ \A j \in 1..Len(items) : size[j] > 0
        /\ SumSizes(Len(items)) <= opts.maxTotalBytes) => pc = "fanout"

\* the total is exceeded at the second of three files
C9_Witness ==
  /\ route = "dir" /\ Len(items) = 3
  /\ outcome = Failure("LOCAL_DIR_TOTAL_SIZE_ERROR")
  /\ fx.statted = {1, 2}

\* C10: in a directory or index fan-out, once a per-item load has failed the
\* call has failed; the call never returns a collection that leaves out an
\* item, whatever the order in which the items complete.
C10_NoPartialResult ==
  route \in {"dir", "index"} =>
    /\ (\E i \in DOMAIN task : task[i].st = "err") => outcome.st = "err"
    /\ outcome.st = "ok" =>
         /\ Len(outcome.files) = Len(items)
         /\ \A i \in DOMAIN task : task[i].st = "ok"

\* one member failed after another had succeeded
C10_Witness ==
  /\ route \in {"dir", "index"} /\ outcome.st = "err"
  /\ \E i, j \in DOMAIN task : task[i].st = "ok" /\ task[j].st = "err"

\* the source of the i-th enumerated item: the i-th .json entry of the
\* listing under the directory, or the i-th string entry of the index
ItemSource(i) ==
  IF route = "dir" THEN resolve(inputStr) \o <<"/">> \o items[i] ELSE items[i]

\* C11: on a successful directory or index load the i-th returned record is
\* the one loaded from the i-th enumerated item (its source, and the data read
\* for it), whatever the order in which the per-item loads settled.
C11_ResultsInEnumerationOrder ==
  (route \in {"dir", "index"} /\ outcome.st = "ok") =>
    /\ Len(outcome.files) = Len(items)
    /\ \A i \in DOMAIN items :
         /\ outcome.files[i].source = ItemSource(i)
         /\ outcome.files[i].data = Stripped(content[i][1])

\* three items that settled in the order 2, 3, 1, the first two with
\* different data
C11_Witness ==
  /\ route \in {"dir", "index"} /\ outcome.st = "ok"
  /\ Len(items) = 3 /\ fx.order = <<2, 3, 1>>
  /\ content[1] # content[2]

\* the codes of the JsonLoaderError instances the source constructs
JsonLoaderErrorCodes ==
  {"INPUT_VALIDATION_ERROR", "JSON_DEPTH_SANITATION_LIMIT",
   "REMOTE_FETCH_ERROR", "REMOTE_FETCH_STATUS_ERROR", "REMOTE_CONTENT_TYPE_ERROR",
   "REMOTE_INDEX_FORMAT_ERROR", "REMOTE_INDEX_LIMIT_ERROR", "REMOTE_INDEX_URL_ERROR",
   "LOCAL_FILE_SIZE_ERROR", "LOCAL_JSON_PARSE_ERROR", "LOCAL_JSON_DEPTH_ERROR",
   "LOCAL_DIR_LIMIT_ERROR", "LOCAL_DIR_TOTAL_SIZE_ERROR",
   "LOCAL_PATH_NOT_FOUND", "LOCAL_FILE_EXTENSION_ERROR", "LOCAL_PATH_TYPE_ERROR"}

\* C12 (as claimed): for a string input, whenever the call fails, and whenever
\* a per-item load fails, the error is a JsonLoaderError carrying one of the
\* enumerated codes; no failure of a listing, a stat, a read or a body parse
\* escapes as an error of another kind.
C12_EveryFailureIsLoaderError ==
  input.t = "str" =>
    /\ outcome.st = "err" => outcome.code \in JsonLoaderErrorCodes
    /\ \A i \in DOMAIN task :
         task[i].st = "err" => task[i].res.code \in JsonLoaderErrorCodes

\* C13 (as claimed): a call whose input is the empty string, or is not a
\* string, has failed with INPUT_VALIDATION_ERROR as soon as it has run, and
\* no filesystem or network operation is ever performed for it.
C13_InvalidInputRejectedBeforeIO ==
  ((input = Str(<<>>) \/ input.t # "str") /\ pc # "init") =>
    /\ outcome = Failure("INPUT_VALIDATION_ERROR")
    /\ fx = NoEffects

\* C14: for a string input without an http:// or https:// prefix no network
\* operation is ever performed, and once the resolved path has been stat'ed
\* the outcome follows what it is: missing fails with LOCAL_PATH_NOT_FOUND; a
\* regular file whose extension is not .json in any letter case fails with
\* LOCAL_FILE_EXTENSION_ERROR and is never stat'ed again or read; a regular
\* .json file goes to the single-file load; a directory is listed; anything
\* else fails with LOCAL_PATH_TYPE_ERROR.
C14_LocalRouting ==
  (/\ input.t = "str" /\ input.s # <<>>
   /\ input.s[1] \notin {"http://", "https://", "HTTP://", "HTTPS://"}) =>
    /\ fx.fetch = {} /\ fx.body = {}
    /\ pc \notin {"init", "rootStat"} =>
         LET json == input.s[Len(input.s)] \in {".json", ".JSON"}
             k == fx.pathKind
         IN /\ k = "missing" => outcome = Failure("LOCAL_PATH_NOT_FOUND")
            /\ (k = "file" /\ ~json) =>
                 /\ outcome = Failure("LOCAL_FILE_EXTENSION_ERROR")
                 /\ fx.fstat = {} /\ fx.read = {} /\ content[0] = <<>>
            /\ (k = "file" /\ json) =>
                 /\ route = "file" /\ 0 \in fx.fstat /\ ~fx.listed
                 /\ outcome.st = "err" =>
                      outcome.code \notin {"LOCAL_PATH_NOT_FOUND",
                        "LOCAL_FILE_EXTENSION_ERROR", "LOCAL_PATH_TYPE_ERROR"}
            /\ k = "dir" => route = "dir" /\ fx.listed /\ 0 \notin fx.fstat
            /\ k = "other" => outcome = Failure("LOCAL_PATH_TYPE_ERROR")
            /\ k # "none"

\* a relative path with an upper-case .JSON extension loaded as a single file
C14_Witness ==
  /\ input = Str(<<"cfg", ".JSON">>) /\ fx.pathKind = "file"
  /\ outcome.st = "ok" /\ Len(outcome.files) = 1
  /\ outcome.files[1].source = <<"/cwd", "/", "cfg", ".JSON">>

\* the load that produced the n-th returned record
SlotOf(n) == IF route \in {"dir", "index"} THEN n ELSE 0

\* C15: for every record of the collection a successful call returns,
\* onFileLoaded was called exactly once for its load, with that record, the
\* record's data being the sanitized content, and the call had been made when
\* the collection was returned; it is never called again afterwards.
C15_LoadedHookOncePerRecord ==
  outcome.st = "ok" =>
    \A n \in DOMAIN outcome.files :
      LET s == SlotOf(n)
      IN /\ atSettle.loaded[s] = 1 /\ atSettle.given[s] = <<outcome.files[n]>>
         /\ fx.loaded[s] = 1 /\ fx.given[s] = <<outcome.files[n]>>
         /\ outcome.files[n].data = Stripped(content[s][1])

\* an index of two files returned, the first with data that sanitization
\* changed, the second settled first
C15_Witness ==
  /\ route = "index" /\ outcome.st = "ok" /\ Len(outcome.files) = 2
  /\ content[1] = <<DocPolluted>> /\ fx.order = <<2, 1>>
  /\ fx.given[1] = <<outcome.files[1]>>

\* C16 (as claimed): when the call has failed because a size policy excluded
\* a file, onFileSkipped had been called for the excluded file when the
\* failure was raised: for the file larger than maxFileBytes, and for the
\* file that took the directory's running total over maxTotalBytes.
C16_SkippedHookBeforeSizeFailure ==
  /\ outcome = Failure("LOCAL_FILE_SIZE_ERROR") =>
       \E n \in atSettle.skipped : size[n] > opts.maxFileBytes
  /\ outcome = Failure("LOCAL_DIR_TOTAL_SIZE_ERROR") =>
       Cardinality(fx.statted) \in atSettle.skipped

\* C18 (as claimed): a remote input whose body was accepted is handled as an
\* index exactly when its sanitized top-level value is an array or an object
\* with a files array; an object that offers a files member of another shape
\* fails the load with REMOTE_INDEX_FORMAT_ERROR and is not returned as a
\* document.
C18_MalformedIndexIsHardFailure ==
  (/\ route \in {"remote", "index"} /\ root = "done" /\ IsDocument(content[0])
   /\ StructuralDepth(Stripped(content[0][1])) <= opts.maxJsonDepth) =>
    LET v == Stripped(content[0][1])
        files == v.t = "obj" /\ "files" \in DOMAIN v.f
    IN /\ route = "index" <=> (v.t = "arr" \/ (files /\ v.f["files"].t = "arr"))
       /\ (files /\ v.f["files"].t # "arr") =>
            outcome = Failure("REMOTE_INDEX_FORMAT_ERROR")

\* the file list of the index the input URL returned
IndexList ==
  LET v == Stripped(content[0][1])
  IN IF v.t = "arr" THEN v.e ELSE v.f["files"].e

\* the positions of its string entries
StringEntries == {n \in DOMAIN IndexList : IndexList[n].t = "str"}

\* C19: in an index load the items are the string entries of the file list in
\* their order (non-string entries are dropped without error); a successful
\* load returns one record per string entry, each with the sanitized body of
\* its URL as data even when that body is itself an array or has a files
\* array (no further task or fetch is made for it); a list with no string
\* entry yields the empty collection without any per-URL fetch.
C19_OneRecordPerStringEntry ==
  route = "index" =>
    /\ Len(items) = Cardinality(StringEntries)
    /\ \A i \in DOMAIN items :
         \E n \in StringEntries :
           /\ Cardinality({m \in StringEntries : m <= n}) = i
           /\ items[i] = IndexList[n].s
    /\ Len(task) \in {0, Len(items)}
    /\ fx.fetch \subseteq 0..Len(items)
    /\ outcome.st = "ok" =>
         /\ Len(outcome.files) = Cardinality(StringEntries)
         /\ \A i \in DOMAIN outcome.files :
              /\ outcome.files[i].data = Stripped(content[i][1])
              /\ outcome.files[i].source = items[i]
    /\ StringEntries = {} => outcome = Success(<<>>) /\ fx.fetch = {0}

\* a list of a number and two URLs loaded into two records, one of them with
\* a body that has the shape of an index
C19_Witness ==
  /\ route = "index" /\ outcome.st = "ok"
  /\ Len(IndexList) = 3 /\ IndexList[1].t = "num"
  /\ Len(outcome.files) = 2
  /\ content[1] = <<DocNestedIndex>>
  /\ outcome.files[1].data = Stripped(DocNestedIndex)

\* an index whose entries are all numbers
C19_WitnessEmpty ==
  /\ route = "index" /\ Len(IndexList) = 2 /\ outcome = Success(<<>>)

\* C20: if a string entry of a remote index does not start with http:// or
\* https:// (in any letter case), the index load never succeeds, no request
\* is ever issued and no body ever read for that entry, and when the entry's
\* load has failed its error is REMOTE_INDEX_URL_ERROR.
C20_InvalidIndexUrl ==
  route = "index" =>
    \A i \in DOMAIN items :
      items[i][1] \notin {"http://", "https://", "HTTP://", "HTTPS://"} =>
        /\ outcome.st # "ok"
        /\ i \notin fx.fetch /\ i \notin fx.body /\ content[i] = <<>>
        /\ i \in DOMAIN task =>
             /\ task[i].st \in {"queued", "err"}
             /\ task[i].st = "err" => task[i].res = Throw("REMOTE_INDEX_URL_ERROR")

\* the second entry is no URL: it waited for the first to load, then failed
\* the index load without being fetched
C20_Witness ==
  /\ route = "index" /\ Len(items) = 2 /\ Len(task) = 2
  /\ items[2][1] \notin {"http://", "https://"}
  /\ task[1].st = "ok" /\ task[2].st = "err"
  /\ outcome = Failure("REMOTE_INDEX_URL_ERROR")
  /\ atSettle.fetch = {0, 1}

\* the last segment of a path or URL: what follows its last "/"
LastSegment(str) ==
  LET n == CHOOSE k \in DOMAIN str :
             str[k] = "/" /\ \A m \in DOMAIN str : m > k => str[m] # "/"
  IN SubSeq(str, n + 1, Len(str))

(***************************************************************************)
(* Claims about the limiter.                                               *)
(***************************************************************************)
\* the per-item loads that execute has run
Started(i) == task[i].st \notin {"new", "queued"}

\* C26: the per-item loads start in the order they were submitted: the
\* n-th load to start is item n, and the deferred ones wait in item order.
C26_StartInSubmissionOrder ==
  /\ \A n \in DOMAIN fx.started : fx.started[n] = n
  /\ \A n \in DOMAIN queue : queue[n] = Len(fx.started) + n
  /\ \A i \in DOMAIN task : Started(i) <=> i \in 1..Len(fx.started)

\* one slot, three items: the first has settled, the second runs, the third waits
C26_Witness ==
  /\ opts.maxConcurrency = 1
  /\ Len(task) = 3
  /\ fx.started = <<1, 2>>
  /\ fx.order = <<1>>
  /\ queue = <<3>>

Submitted(i) == i \in DOMAIN task /\ task[i].st # "new"

TaskSettled(i) == i \in DOMAIN task /\ task[i].st \in {"ok", "err"}

\* C28: with maxConcurrency >= 1 and every pending I/O of a started load
\* completing, every load handed to the limiter eventually starts and
\* settles, whatever became of the other loads and of the aggregate.
\* (items.map hands all items to the limiter in one turn, so once one is
\* submitted all are.)
C28_EverySubmittedTaskSettles ==
  ((\E i \in 1..MaxEntries : Submitted(i)) /\ opts.maxConcurrency >= 1)
    ~> (\A i \in DOMAIN task : Submitted(i) /\ TaskSettled(i))

\* the aggregate failed on the first settlement while a load was still
\* deferred; that load started afterwards and all three have settled
C28_Witness ==
  /\ opts.maxConcurrency = 1
  /\ Len(task) = 3
  /\ outcome.st = "err"
  /\ Len(atSettle.order) = 1
  /\ Len(atSettle.started) < 3
  /\ task[1].st = "err"
  /\ \A i \in DOMAIN task : TaskSettled(i)

(***************************************************************************)
(* Claims about the gates of a remote fetch.                               *)
(***************************************************************************)
\* load n failed with code: the call itself for the input URL (0), the
\* per-item load otherwise
FetchFailedWith(n, code) ==
  IF n = 0 THEN outcome = Failure(code)
  ELSE n \in DOMAIN task /\ task[n].st = "err" /\ task[n].res = Throw(code)

\* C30: of every fetch that got a response: a non-2xx one fails with
\* REMOTE_FETCH_STATUS_ERROR whatever its content-type; a 2xx one whose
\* content-type holds no json text fails with REMOTE_CONTENT_TYPE_ERROR; the
\* body is read only of a 2xx response with a JSON content-type, and of no
\* load without a response.
C30_StatusThenContentTypeThenBody ==
  \A n \in Slots :
    /\ n \in fx.body => fx.resp[n] # <<>>
    /\ fx.resp[n] # <<>> =>
         LET res == fx.resp[n][1]
         IN /\ ~res.ok => FetchFailedWith(n, "REMOTE_FETCH_STATUS_ERROR")
            /\ res.ok /\ ~res.json => FetchFailedWith(n, "REMOTE_CONTENT_TYPE_ERROR")
            /\ n \in fx.body => res.ok /\ res.json

\* one member answered 404 with a JSON content-type and failed on the
\* status, one answered 200 with no JSON content-type, and a third passed
\* both gates and had its body read
C30_Witness ==
  /\ Len(task) = 3
  /\ fx.resp[1] = <<[ok |-> FALSE, json |-> TRUE]>>
  /\ task[1].res = Throw("REMOTE_FETCH_STATUS_ERROR")
  /\ fx.resp[2] = <<[ok |-> TRUE, json |-> FALSE]>>
  /\ task[2].res = Throw("REMOTE_CONTENT_TYPE_ERROR")
  /\ fx.resp[3] = <<[ok |-> TRUE, json |-> TRUE]>>
  /\ 3 \in fx.body /\ 1 \notin fx.body /\ 2 \notin fx.body

\* C21 (as claimed): every returned record has as name the last path segment
\* of its source, on every route: a local file, a directory member, a single
\* remote document and a remote index member.
C21_NameIsBasename ==
  outcome.st = "ok" =>
    \A n \in DOMAIN outcome.files :
      outcome.files[n].name = LastSegment(outcome.files[n].source)

(***************************************************************************)
(* Claims about what happens after the call has settled.                   *)
(***************************************************************************)
\* C33 (as claimed): once the promise of loadSafeJsonResources has settled,
\* the call invokes no hook, reads no file and issues no HTTP request any
\* more, and onFileLoaded has not been invoked for a file of a failed load.
C33_NoEffectsAfterSettle ==
  outcome.st # "pending" =>
    /\ fx.loaded = atSettle.loaded
    /\ fx.skipped = atSettle.skipped
    /\ fx.read = atSettle.read
    /\ fx.fstat = atSettle.fstat
    /\ fx.fetch = atSettle.fetch
    /\ fx.body = atSettle.body
    /\ outcome.st = "err" => \A n \in Slots : fx.loaded[n] = 0

(***************************************************************************)
(* Claims about maxConcurrency values below 1 (checked under               *)
(* SpecAnyConcurrency).                                                    *)
(***************************************************************************)
\* C32 (as claimed): whatever maxConcurrency is, zero and negative
\* included, a directory or index load whose items were handed to the
\* limiter eventually settles, provided every I/O operation completes.
C32_FanOutSettles ==
  (\E i \in 1..MaxEntries : Submitted(i)) ~> (outcome.st # "pending")

(***************************************************************************)
(* Claims about the timeout of a remote fetch (checked under SpecFetch).   *)
(***************************************************************************)
\* C31 (as claimed): a remote load is under its httpTimeoutMs timer until
\* the response has been received completely: once that time has passed
\* the load has settled, and when the timer fired the load failed with
\* REMOTE_FETCH_ERROR.
C31_TimerBoundsWholeFetch ==
  /\ fnRes.timer = "fired" => fnRes.out = Throw("REMOTE_FETCH_ERROR")
  /\ fnN > fnArg.httpTimeoutMs => fnRes.out # Pending

(***************************************************************************)
(* Claims about the returned record (checked under SpecRec).               *)
(***************************************************************************)
\* C22 (as claimed): whatever the code that receives a LoadedJsonFile writes
\* to it, the record's name, data (with everything nested inside data) and
\* source stay as they were when the record was constructed.
C22_RecordImmutable ==
  fnPc = "done" => fnRes = fnArg

(***************************************************************************)
(* Claims about the content-type check (checked under SpecCt).             *)
(***************************************************************************)
\* C17 (as claimed): in strict mode a 200 response is accepted only when its
\* content-type is application/json and nothing else (in either letter
\* case), so a value that merely begins with that text is refused; in loose
\* mode it is accepted exactly when the content-type holds the text json in
\* any letter case; a refusal is REMOTE_CONTENT_TYPE_ERROR.
C17_StrictContentTypeIsExact ==
  ctPc = "done" =>
    /\ ~ctLoose =>
         (ctOut.ok <=> ctHdr \in {<<"application/json">>, <<"Application/JSON">>})
    /\ ctLoose =>
         (ctOut.ok <=>
            \E n \in DOMAIN ctHdr :
              ctHdr[n] \in {"application/json", "Application/JSON", "json"})
    /\ ~ctOut.ok => ctOut = Throw("REMOTE_CONTENT_TYPE_ERROR")

====
